---- MODULE Spec2Model ----
(***************************************************************************)
(* Mercari marketplace integration: the listing normalizer                  *)
(* (mercari_normalizer.py) and the search client (mercari_search.py).       *)
(*                                                                         *)
(* The program keeps no state between calls.  A behaviour of the model is   *)
(* one call: Init draws the operation and its argument from bounded sets,   *)
(* and the action of that operation computes what the code returns or       *)
(* raises.  Python strings are TLA+ strings (Len, \o and SubSeq act on      *)
(* them character by character); other Python values are tagged records.   *)
(***************************************************************************)
EXTENDS Integers, Sequences, FiniteSets, TLC

VARIABLES pc, call, result, request, response, log

vars == <<pc, call, result, request, response, log>>

\* ---------------------------------------------------------------- bounds

\* Longest condition text, in fragments of CondFrags.
MaxCondFrags == 3

\* Longest title or description given to a brand scan, in fragments of BrandFrags.
MaxBrandFrags == 2

\* The most keys a raw record differs in from the sample record or the empty one.
MaxEdits == 2

\* The most items in a search response.
MaxItems == 2

\* ------------------------------------------------------- Python strings

CharAt(s, i) == SubSeq(s, i, i)

UpperChars == "ABCDEFGHIJKLMNOPQRSTUVWXYZ"
LowerChars == "abcdefghijklmnopqrstuvwxyz"
DigitChars == "0123456789"

CharsOf(s) == {CharAt(s, i) : i \in 1..Len(s)}

\* The lower-case letter of each upper-case one.
LowerTable ==
    [c \in CharsOf(UpperChars) |->
        CharAt(LowerChars, CHOOSE i \in 1..Len(UpperChars) : CharAt(UpperChars, i) = c)]

\* str.lower() on one character of the modelled alphabet.
LowerChar(c) == IF c \in DOMAIN LowerTable THEN LowerTable[c] ELSE c

\* str.lower()
RECURSIVE lower(_)
lower(s) ==
    IF Len(s) = 0 THEN ""
    ELSE LowerChar(CharAt(s, 1)) \o lower(SubSeq(s, 2, Len(s)))

\* The `in` operator on two strings: needle occurs in hay as a substring.
str_in(needle, hay) ==
    \E i \in 1..(Len(hay) - Len(needle) + 1) :
        SubSeq(hay, i, i + Len(needle) - 1) = needle

\* --------------------------------------------------------- Python values

\* Each type has a payload field of its own, so values of two types differ by
\* their fields.  A float is held in hundredths (79.99 is PyFloat(7999)).
None == [type |-> "NoneType"]
Str(s) == [type |-> "str", s |-> s]
PyInt(n) == [type |-> "int", n |-> n]
PyFloat(c) == [type |-> "float", c |-> c]
PyBool(b) == [type |-> "bool", b |-> b]
List(items) == [type |-> "list", items |-> items]
Dict(d) == [type |-> "dict", d |-> d]
Member(name) == [type |-> "StandardCondition", name |-> name]
Raise(exc) == [type |-> "raise", exc |-> exc]
IsStr(v) == v.type = "str"
IsRaise(v) == v.type = "raise"

\* bool(v): the truth value `if v` tests.
truthy(v) ==
    CASE v.type = "NoneType" -> FALSE
      [] v.type = "str" -> Len(v.s) > 0
      [] v.type = "int" -> v.n # 0
      [] v.type = "float" -> v.c # 0
      [] v.type = "bool" -> v.b
      [] v.type = "list" -> Len(v.items) > 0
      [] v.type = "dict" -> DOMAIN v.d # {}
      [] OTHER -> TRUE

\* a == b on two values; values of two types are unequal.
py_eq(a, b) == a.type = b.type /\ a = b

\* dict.get(key, default) on a dict held as a function from its keys.
get(d, key, default) == IF key \in DOMAIN d THEN d[key] ELSE default

\* A dict display that leaves out the keys whose value is None.
dict_literal_skip_none(pairs) ==
    [k \in {pairs[i][1] : i \in 1..Len(pairs)} \ {pairs[i][1] : i \in {j \in 1..Len(pairs) : pairs[j][2].type = "NoneType"}} |->
        pairs[CHOOSE i \in 1..Len(pairs) : pairs[i][1] = k][2]]

\* A dict display {k1: v1, k2: v2, ...}, given as a sequence of <<key, value>>.
dict_literal(pairs) ==
    [k \in {pairs[i][1] : i \in 1..Len(pairs)} |->
        pairs[CHOOSE i \in 1..Len(pairs) :
                 pairs[i][1] = k /\ \A j \in 1..Len(pairs) : pairs[j][1] = k => j <= i][2]]

\* ------------------------------------------------- the condition classifier

StandardCondition == {"NEW", "LIKE_NEW", "VERY_GOOD", "GOOD", "ACCEPTABLE", "POOR"}

\* \w of the re module, on the modelled alphabet.
WordChars == CharsOf(UpperChars) \cup CharsOf(LowerChars) \cup CharsOf(DigitChars) \cup {"_"}

IsWordChar(c) == c \in WordChars

\* \b at the position between characters p and p + 1 of s (p in 0..Len(s)).
WordBoundary(s, p) ==
    LET before == p >= 1 /\ IsWordChar(CharAt(s, p))
        after == p + 1 <= Len(s) /\ IsWordChar(CharAt(s, p + 1))
    IN  before # after

\* The pattern without its \b: a plain substring match at character i.
MatchAt_substring(lit, s, i) ==
    /\ i + Len(lit) - 1 <= Len(s)
    /\ SubSeq(s, i, i + Len(lit) - 1) = lit

\* The pattern \b<lit>\b matches s starting at character i.
MatchAt(lit, s, i) ==
    /\ i + Len(lit) - 1 <= Len(s)
    /\ SubSeq(s, i, i + Len(lit) - 1) = lit
    /\ WordBoundary(s, i - 1)
    /\ WordBoundary(s, i + Len(lit) - 1)

\* re.search(r'\b<alts[1]>\b|\b<alts[2]>\b|...', s) finds a match.
re_search(alts, s) ==
    \E k \in 1..Len(alts) : \E i \in 1..Len(s) : MatchAt(alts[k], s, i)

\* The list with the word "new" tried before the phrases that hold it.
condition_mapping_new_first == <<
    [alts |-> <<"new">>, condition |-> "NEW"],
    [alts |-> <<"like new">>, condition |-> "LIKE_NEW"],
    [alts |-> <<"brand new">>, condition |-> "NEW"],
    [alts |-> <<"very good">>, condition |-> "VERY_GOOD"],
    [alts |-> <<"good">>, condition |-> "GOOD"],
    [alts |-> <<"acceptable">>, condition |-> "ACCEPTABLE"],
    [alts |-> <<"poor", "has flaws">>, condition |-> "POOR"] >>

condition_mapping == <<
    [alts |-> <<"like new">>, condition |-> "LIKE_NEW"],
    [alts |-> <<"brand new">>, condition |-> "NEW"],
    [alts |-> <<"new">>, condition |-> "NEW"],
    [alts |-> <<"very good">>, condition |-> "VERY_GOOD"],
    [alts |-> <<"good">>, condition |-> "GOOD"],
    [alts |-> <<"acceptable">>, condition |-> "ACCEPTABLE"],
    [alts |-> <<"poor", "has flaws">>, condition |-> "POOR"] >>

\* normalize_condition without its last line: the loop falls through to None.
normalize_condition_no_default(mercari_condition) ==
    IF ~IsStr(mercari_condition) THEN Raise("AttributeError")
    ELSE LET normalized_condition == lower(mercari_condition.s)
             hits == {k \in 1..Len(condition_mapping) :
                         re_search(condition_mapping[k].alts, normalized_condition)}
         IN  IF hits = {} THEN None
             ELSE Member(condition_mapping[CHOOSE k \in hits : \A j \in hits : k <= j].condition)

\* normalize_condition on a Python value: .lower() exists on str only.
normalize_condition(mercari_condition) ==
    IF ~IsStr(mercari_condition) THEN Raise("AttributeError")
    ELSE LET normalized_condition == lower(mercari_condition.s)
             hits == {k \in 1..Len(condition_mapping) :
                         re_search(condition_mapping[k].alts, normalized_condition)}
         IN  IF hits = {} THEN Member("GOOD")
             ELSE Member(condition_mapping[CHOOSE k \in hits : \A j \in hits : k <= j].condition)

\* ------------------------------------------------------ the brand resolver

\* The title scan comparing without .lower().
_find_brand_in_title_case_sensitive(title) ==
    LET brands == <<"Nike", "Adidas", "Apple", "Samsung", "Sony">>
    IN  IF ~IsStr(title) THEN Raise("AttributeError")
        ELSE LET found == {i \in 1..Len(brands) : str_in(brands[i], title.s)}
             IN  IF found = {} THEN None
                 ELSE Str(brands[CHOOSE i \in found : \A j \in found : i <= j])

\* _find_brand_in_title: the first entry of the list that occurs in the title,
\* both lower-cased.  A title that is no str has no .lower().
_find_brand_in_title(title) ==
    LET brands == <<"Nike", "Adidas", "Apple", "Samsung", "Sony">>
    IN  IF ~IsStr(title) THEN Raise("AttributeError")
        ELSE LET found == {i \in 1..Len(brands) : str_in(lower(brands[i]), lower(title.s))}
             IN  IF found = {} THEN None
                 ELSE Str(brands[CHOOSE i \in found : \A j \in found : i <= j])

\* _find_brand_in_description: the same scan, written out a second time.
_find_brand_in_description(description) ==
    LET brands == <<"Nike", "Adidas", "Apple", "Samsung", "Sony">>
    IN  IF ~IsStr(description) THEN Raise("AttributeError")
        ELSE LET found == {i \in 1..Len(brands) : str_in(lower(brands[i]), lower(description.s))}
             IN  IF found = {} THEN None
                 ELSE Str(brands[CHOOSE i \in found : \A j \in found : i <= j])

\* _extract_brand: the list of the three candidates is built first (both scans
\* run, whatever the 'brand' field holds), then the first truthy one is taken.
_extract_brand(listing_data) ==
    LET explicit == get(listing_data, "brand", None)
        in_title == _find_brand_in_title(get(listing_data, "title", Str("")))
        in_description == _find_brand_in_description(get(listing_data, "description", Str("")))
    IN  IF IsRaise(in_title) THEN in_title
        ELSE IF IsRaise(in_description) THEN in_description
        ELSE IF truthy(explicit) THEN explicit
        ELSE IF truthy(in_title) THEN in_title
        ELSE IF truthy(in_description) THEN in_description
        ELSE None

\* ------------------------------------------------------- the seller fields

extract_seller_info(listing_data) ==
    Dict(dict_literal(<<
        <<"seller_name", get(listing_data, "seller_username", Str("Unknown"))>>,
        <<"seller_rating", get(listing_data, "seller_rating", None)>>,
        <<"total_sales", get(listing_data, "seller_total_sales", PyInt(0))>>,
        <<"joined_date", get(listing_data, "seller_join_date", None)>> >>))

\* ------------------------------------------------------------------ float()

\* str.strip() of blanks.
RECURSIVE strip(_)
strip(s) ==
    IF Len(s) > 0 /\ CharAt(s, 1) = " " THEN strip(SubSeq(s, 2, Len(s)))
    ELSE IF Len(s) > 0 /\ CharAt(s, Len(s)) = " " THEN strip(SubSeq(s, 1, Len(s) - 1))
    ELSE s

IsDigits(s) == \A i \in 1..Len(s) : CharAt(s, i) \in CharsOf(DigitChars)

DigitValue(c) == (CHOOSE i \in 1..Len(DigitChars) : CharAt(DigitChars, i) = c) - 1

\* The number a string of digits writes in base ten.
RECURSIVE DecimalValue(_)
DecimalValue(s) ==
    IF Len(s) = 0 THEN 0
    ELSE 10 * DecimalValue(SubSeq(s, 1, Len(s) - 1)) + DigitValue(CharAt(s, Len(s)))

\* float(str): blanks stripped, an optional sign, digits with at most one
\* point and at least one digit.  The value is kept to the hundredth.  (The
\* exponent, inf, nan and underscore forms are not among the modelled inputs.)
float_of_str(s) ==
    LET t == strip(s)
        signed == Len(t) > 0 /\ CharAt(t, 1) \in {"+", "-"}
        body == IF signed THEN SubSeq(t, 2, Len(t)) ELSE t
        points == {i \in 1..Len(body) : CharAt(body, i) = "."}
        whole == IF points = {} THEN body
                 ELSE SubSeq(body, 1, (CHOOSE i \in points : TRUE) - 1)
        frac == IF points = {} THEN ""
                ELSE SubSeq(body, (CHOOSE i \in points : TRUE) + 1, Len(body))
        hundredths == DecimalValue(SubSeq(frac \o "00", 1, 2))
        magnitude == 100 * DecimalValue(whole) + hundredths
    IN  IF /\ Cardinality(points) <= 1
           /\ IsDigits(whole) /\ IsDigits(frac)
           /\ Len(whole) + Len(frac) > 0
        THEN PyFloat(IF signed /\ CharAt(t, 1) = "-" THEN 0 - magnitude ELSE magnitude)
        ELSE Raise("ValueError")

\* float(v) wrapped to give 0 for what does not convert.
py_float_or_zero(v) ==
    CASE v.type = "float" -> v
      [] v.type = "int" -> PyFloat(100 * v.n)
      [] v.type = "bool" -> PyFloat(IF v.b THEN 100 ELSE 0)
      [] v.type = "str" -> IF IsRaise(float_of_str(v.s)) THEN PyFloat(0) ELSE float_of_str(v.s)
      [] OTHER -> PyFloat(0)

\* float(v)
py_float(v) ==
    CASE v.type = "float" -> v
      [] v.type = "int" -> PyFloat(100 * v.n)
      [] v.type = "bool" -> PyFloat(IF v.b THEN 100 ELSE 0)
      [] v.type = "str" -> float_of_str(v.s)
      [] OTHER -> Raise("TypeError")

\* -------------------------------------------------- the listing normalizer

\* normalize_listing: the dict display's values are evaluated top to bottom,
\* and the first one that raises ends the call.
normalize_listing(mercari_listing) ==
    LET price == py_float(get(mercari_listing, "price", PyInt(0)))
        condition == normalize_condition(get(mercari_listing, "condition", Str("Unknown")))
        brand == _extract_brand(mercari_listing)
        shipping_cost == py_float(get(mercari_listing, "shipping_cost", PyInt(0)))
    IN  IF IsRaise(price) THEN price
        ELSE IF IsRaise(condition) THEN condition
        ELSE IF IsRaise(brand) THEN brand
        ELSE IF IsRaise(shipping_cost) THEN shipping_cost
        ELSE Dict(dict_literal(<<
            <<"platform", Str("Mercari")>>,
            <<"platform_id", get(mercari_listing, "id", None)>>,
            <<"title", get(mercari_listing, "title", Str(""))>>,
            <<"description", get(mercari_listing, "description", Str(""))>>,
            <<"price", price>>,
            <<"images", get(mercari_listing, "image_urls", List(<<>>))>>,
            <<"condition", Str(condition.name)>>,
            <<"seller_info", extract_seller_info(mercari_listing)>>,
            <<"category", get(mercari_listing, "category", Str("Unknown"))>>,
            <<"brand", brand>>,
            <<"shipping_cost", shipping_cost>>,
            <<"shipping_method", get(mercari_listing, "shipping_method", Str("Unknown"))>>,
            <<"url", get(mercari_listing, "listing_url", None)>> >>))

\* -------------------------------------------------------- the search client

\* d[key] = value on a dict.
dict_set(d, key, value) ==
    [k \in DOMAIN d \cup {key} |-> IF k = key THEN value ELSE d[k]]

\* The decimal writing of a natural number.
RECURSIVE ToDecimal(_)
ToDecimal(n) ==
    IF n < 10 THEN CharAt(DigitChars, n + 1)
    ELSE ToDecimal(n \div 10) \o CharAt(DigitChars, (n % 10) + 1)

\* The text an f-string puts for {v}.
format(v) ==
    CASE v.type = "str" -> v.s
      [] v.type = "int" -> ToDecimal(v.n)
      [] OTHER -> "None"

\* The query parameters search builds from its arguments.
search_params(args) ==
    LET condition_map == [new |-> "1", like_new |-> "2", good |-> "3", fair |-> "4"]
        p0 == dict_literal(<< <<"keyword", args.keywords>>, <<"limit", PyInt(100)>> >>)
        p1 == IF truthy(args.category) THEN dict_set(p0, "category_id", args.category) ELSE p0
        p2 == IF truthy(args.condition)
              THEN dict_set(p1, "condition",
                            IF lower(args.condition.s) \in DOMAIN condition_map
                            THEN Str(condition_map[lower(args.condition.s)])
                            ELSE args.condition)
              ELSE p1
        p3 == IF args.min_price.type # "NoneType" THEN dict_set(p2, "price_min", args.min_price) ELSE p2
        p4 == IF args.max_price.type # "NoneType" THEN dict_set(p3, "price_max", args.max_price) ELSE p3
    IN  IF ~args.include_sold THEN dict_set(p4, "status", Str("on_sale")) ELSE p4

search_headers(api_key) ==
    dict_literal(<<
        <<"Authorization", Str(IF truthy(api_key) THEN "Bearer " \o api_key.s ELSE "")>>,
        <<"Content-Type", Str("application/json")>> >>)

\* An except clause that names the connection failures only.
RequestException_connection_only == {"ConnectionError", "Timeout"}

\* The classes `except requests.RequestException` catches.
RequestException == {"ConnectionError", "Timeout", "HTTPError", "JSONDecodeError"}

\* One item of the response as search returns it.
processed_result(item) ==
    Dict(dict_literal(<<
        <<"id", get(item.d, "id", None)>>,
        <<"title", get(item.d, "name", None)>>,
        <<"price", get(item.d, "price", None)>>,
        <<"condition", get(item.d, "condition_description", None)>>,
        <<"url", Str("https://mercari.com/item/" \o format(get(item.d, "id", None)))>>,
        <<"is_sold", PyBool(py_eq(get(item.d, "status", None), Str("sold")))>> >>))

\* The body of the try block: what it returns, or the exception it raises.
\* resp.kind is the exception requests.get raises, or "response" with
\* a status and a body; body.form "invalid" is a body json() cannot decode,
\* and body.raises the class json() raises then (requests.JSONDecodeError
\* from requests 2.27 on, a plain ValueError before).
search_try(resp) ==
    IF resp.kind # "response" THEN Raise(resp.kind)
    ELSE IF resp.status >= 400 /\ resp.status < 600 THEN Raise("HTTPError")
    ELSE IF resp.body.form = "invalid" THEN Raise(resp.body.raises)
    ELSE LET json == resp.body.value
         IN  IF json.type # "dict" THEN Raise("AttributeError")
             ELSE LET results == get(json.d, "items", List(<<>>))
                  IN  IF results.type # "list" THEN Raise("TypeError")
                      ELSE IF \E i \in 1..Len(results.items) : results.items[i].type # "dict"
                      THEN Raise("AttributeError")
                      ELSE List([i \in 1..Len(results.items) |->
                                    processed_result(results.items[i])])

\* search: the request it sends, what it logs, and what it returns or raises.
\* The error record's text ends with the exception's message, held here as
\* the exception's class.
search(api_key, args, resp) ==
    LET outcome == search_try(resp)
        req == [method |-> "GET", url |-> "https://api.mercari.com/v2/search",
                    params |-> search_params(args), headers |-> search_headers(api_key)]
    IN  IF ~IsRaise(outcome)
        THEN [request |-> req,
              logged |-> << [level |-> "info",
                             msg |-> "Mercari search returned "
                                     \o ToDecimal(Len(outcome.items)) \o " results"] >>,
              ret |-> outcome]
        ELSE IF outcome.exc \in RequestException
        THEN [request |-> req,
              logged |-> << [level |-> "error",
                             msg |-> "Mercari search error: " \o outcome.exc] >>,
              ret |-> List(<<>>)]
        ELSE [request |-> req, logged |-> <<>>, ret |-> outcome]

\* ------------------------------------------------------------ the inputs

CondFrags == {"Like New", "new", "Brand New", "Very Good", "good", "acceptable",
              "poor", "Has Flaws", " ", "un"}

BrandFrags == {"Nike", "sony", "ADIDAS", "Apple", "samsung", " ", "pine", "x"}

\* Every concatenation of at most n fragments of frags.
RECURSIVE Texts(_, _)
Texts(frags, n) ==
    IF n = 0 THEN {""}
    ELSE LET shorter == Texts(frags, n - 1)
         IN  shorter \cup {t \o f : t \in shorter, f \in frags}

ConditionTexts == Texts(CondFrags, MaxCondFrags)

BrandTexts == Texts(BrandFrags, MaxBrandFrags)

\* The raw record of test_complete_listing_normalization.
sample_listing ==
    [id |-> Str("mercari_123456"),
     title |-> Str("Nike Air Max Running Shoes - Like New"),
     description |-> Str("Gently used Nike Air Max in excellent condition"),
     price |-> PyFloat(7999),
     image_urls |-> List(<<Str("https://example.com/shoe1.jpg"), Str("https://example.com/shoe2.jpg")>>),
     condition |-> Str("Like New"),
     seller_username |-> Str("shoe_seller"),
     seller_rating |-> PyFloat(490),
     seller_total_sales |-> PyInt(500),
     seller_join_date |-> Str("2022-06-01"),
     category |-> Str("Shoes"),
     shipping_cost |-> PyFloat(599),
     shipping_method |-> Str("USPS Priority"),
     listing_url |-> Str("https://mercari.com/listing/123456")]

RawKeys == DOMAIN sample_listing \cup {"brand"}

\* The values a raw record's key is given, besides the sample's.
OtherValues(key) ==
    CASE key = "title" -> {None, Str(""), Str("Sony Walkman")}
      [] key = "description" -> {None, Str("an adidas bag")}
      [] key = "price" -> {None, PyInt(0), Str("12.5"), Str(" -0.0 "), Str("abc"), Str("")}
      [] key = "shipping_cost" -> {None, PyInt(3), Str("0"), Str("free"), List(<<>>)}
      [] key = "condition" -> {None, Str("Brand New"), Str("mint")}
      [] key = "brand" -> {None, Str(""), Str("Acme")}
      [] key = "image_urls" -> {None}
      [] OTHER -> {}

KeyValues(key) ==
    OtherValues(key) \cup (IF key \in DOMAIN sample_listing THEN {sample_listing[key]} ELSE {})

dict_del(d, key) == [k \in DOMAIN d \ {key} |-> d[k]]

\* The records at most n keys away from base: a key set or removed.
RECURSIVE Variants(_, _)
Variants(base, n) ==
    IF n = 0 THEN {base}
    ELSE LET nearer == Variants(base, n - 1)
         IN  nearer
             \cup UNION {{dict_set(r, k, v) : r \in nearer, v \in KeyValues(k)} : k \in RawKeys}
             \cup UNION {{dict_del(r, k) : k \in DOMAIN r} : r \in nearer}

RawListings == Variants(sample_listing, MaxEdits) \cup Variants(<<>>, MaxEdits)

\* The records _extract_brand is called on directly.
BrandListings ==
    UNION {Variants(base, 1) :
              base \in {dict_literal(<< <<"brand", b>>, <<"title", Str(t)>>, <<"description", Str(d)>> >>) :
                           b \in {None, Str(""), Str("Acme"), Str("Nike")},
                           t \in {"", "Sony Walkman", "acme apple"},
                           d \in {"", "an adidas bag"}}}

SearchArgs ==
    [keywords : {Str("nintendo switch")},
     category : {None, Str("electronics")},
     condition : {None, Str("Like_New"), Str("mint")},
     min_price : {None, PyInt(100)},
     max_price : {None, PyInt(300)},
     include_sold : BOOLEAN]

ApiKeys == {None, Str("k3y")}

Items ==
    {Dict([id |-> Str("m1"), name |-> Str("Switch"), price |-> PyInt(250),
           condition_description |-> Str("Like New"), status |-> Str("on_sale")]),
     Dict([id |-> Str("m2"), name |-> Str("Switch Lite"), price |-> PyInt(120),
           condition_description |-> Str("Good"), status |-> Str("sold")]),
     Dict([id |-> PyInt(7)]),
     Dict(<<>>)}

RECURSIVE ItemLists(_)
ItemLists(n) ==
    IF n = 0 THEN {<<>>}
    ELSE LET shorter == ItemLists(n - 1)
         IN  shorter \cup {Append(l, i) : l \in shorter, i \in Items}

Bodies ==
    {[form |-> "invalid", raises |-> e] : e \in {"JSONDecodeError", "ValueError"}}
    \cup {[form |-> "json", value |-> v] :
             v \in {List(<<>>), Dict(<<>>), Dict([items |-> None])}
                   \cup {Dict([items |-> List(l)]) : l \in ItemLists(MaxItems)}}

\* What the GET meets: a transport failure, an error status (its body is
\* not read), or a 200 with any of the bodies.
Responses ==
    {[kind |-> k] : k \in {"ConnectionError", "Timeout"}}
    \cup {[kind |-> "response", status |-> s, body |-> [form |-> "invalid", raises |-> "ValueError"]] :
             s \in {404, 503}}
    \cup {[kind |-> "response", status |-> 200, body |-> b] : b \in Bodies}

Calls ==
    {[op |-> "normalize_condition", arg |-> Str(t)] : t \in ConditionTexts}
    \cup {[op |-> "_find_brand_in_title", arg |-> Str(t)] : t \in BrandTexts}
    \cup {[op |-> "_find_brand_in_description", arg |-> Str(t)] : t \in BrandTexts}
    \cup {[op |-> "_extract_brand", arg |-> Dict(r)] : r \in BrandListings}
    \cup {[op |-> "normalize_listing", arg |-> Dict(r)] : r \in RawListings}
    \cup {[op |-> "search", arg |-> Dict([api_key |-> k, args |-> a])] : k \in ApiKeys, a \in SearchArgs}

\* ------------------------------------------------------------ the machine

\* pc: "start" before the call runs, "done" after.  call: the operation and
\* its argument.  result: what the call returned or raised.  request: the
\* HTTP request search sent.  response: what the remote endpoint answered.
\* log: the records the search logger was given.

Pending == [type |-> "pending"]

Init ==
    /\ pc = "start"
    /\ call \in Calls
    /\ result = Pending
    /\ request = Pending
    /\ response = Pending
    /\ log = <<>>

NormalizeCondition ==
    /\ pc = "start"
    /\ call.op = "normalize_condition"
    /\ result' = normalize_condition(call.arg)
    /\ pc' = "done"
    /\ UNCHANGED <<call, request, response, log>>

FindBrandInTitle ==
    /\ pc = "start"
    /\ call.op = "_find_brand_in_title"
    /\ result' = _find_brand_in_title(call.arg)
    /\ pc' = "done"
    /\ UNCHANGED <<call, request, response, log>>

FindBrandInDescription ==
    /\ pc = "start"
    /\ call.op = "_find_brand_in_description"
    /\ result' = _find_brand_in_description(call.arg)
    /\ pc' = "done"
    /\ UNCHANGED <<call, request, response, log>>

ExtractBrand ==
    /\ pc = "start"
    /\ call.op = "_extract_brand"
    /\ result' = _extract_brand(call.arg.d)
    /\ pc' = "done"
    /\ UNCHANGED <<call, request, response, log>>

NormalizeListing ==
    /\ pc = "start"
    /\ call.op = "normalize_listing"
    /\ result' = normalize_listing(call.arg.d)
    /\ pc' = "done"
    /\ UNCHANGED <<call, request, response, log>>

\* search, with the remote endpoint's answer chosen by the environment.
Search ==
    /\ pc = "start"
    /\ call.op = "search"
    /\ \E r \in Responses :
          LET out == search(call.arg.d.api_key, call.arg.d.args, r)
          IN  /\ response' = r
              /\ request' = out.request
              /\ log' = log \o out.logged
              /\ result' = out.ret
    /\ pc' = "done"
    /\ UNCHANGED call

Next ==
    \/ NormalizeCondition
    \/ FindBrandInTitle
    \/ FindBrandInDescription
    \/ ExtractBrand
    \/ NormalizeListing
    \/ Search

Spec == Init /\ [][Next]_vars

\* ------------------------------------------------------------ properties

Returned(op) == pc = "done" /\ call.op = op

\* w stands in s as a whole word or phrase: an occurrence with no word
\* character right before it and none right after it.
Standalone(w, s) ==
    \E i \in 1..(Len(s) - Len(w) + 1) :
        /\ SubSeq(s, i, i + Len(w) - 1) = w
        /\ (i = 1 \/ CharAt(s, i - 1) \notin WordChars)
        /\ (i + Len(w) - 1 = Len(s) \/ CharAt(s, i + Len(w)) \notin WordChars)

\* The seven patterns of the specification, in its order, with their variants.
PatternOrder == <<
    <<{"like new"}, "LIKE_NEW">>,
    <<{"brand new"}, "NEW">>,
    <<{"new"}, "NEW">>,
    <<{"very good"}, "VERY_GOOD">>,
    <<{"good"}, "GOOD">>,
    <<{"acceptable"}, "ACCEPTABLE">>,
    <<{"poor", "has flaws"}, "POOR">> >>

PatternMatches(k, s) == \E w \in PatternOrder[k][1] : Standalone(w, lower(s))

\* C1: normalize_condition is total over strings: every string, the empty one
\* included, gives one of the six variants and never an exception, and a
\* string none of the seven patterns matches gives GOOD.
C1_Total ==
    Returned("normalize_condition") =>
        /\ result.type = "StandardCondition"
        /\ result.name \in StandardCondition
        /\ ((\A k \in 1..Len(PatternOrder) : ~PatternMatches(k, call.arg.s))
               => result.name = "GOOD")

\* The empty string has been classified, as GOOD.
C1_Witness ==
    /\ Returned("normalize_condition")
    /\ call.arg.s = ""
    /\ result.type = "StandardCondition"
    /\ result.name = "GOOD"

\* C2 as stated: every string that has "like new" in it, in any letter case,
\* is classified LIKE_NEW.
C2_Original ==
    (Returned("normalize_condition") /\ str_in("like new", lower(call.arg.s)))
        => (result.type = "StandardCondition" /\ result.name = "LIKE_NEW")

\* C2 amended: every string in which "like new", in any letter case, stands as
\* a whole phrase (no word character right before or right after it) is
\* classified LIKE_NEW, whatever other pattern it holds before or after.
C2_WholePhrase ==
    (Returned("normalize_condition") /\ Standalone("like new", lower(call.arg.s)))
        => (result.type = "StandardCondition" /\ result.name = "LIKE_NEW")

\* A string with the word "new" before the phrase has been classified LIKE_NEW.
C2_Witness ==
    /\ Returned("normalize_condition")
    /\ call.arg.s = "new Like New"
    /\ result.type = "StandardCondition"
    /\ result.name = "LIKE_NEW"

\* The known-brand list of the specification, in its order.
KnownBrands == <<"Nike", "Adidas", "Apple", "Samsung", "Sony">>

\* b occurs in text, letter case apart.
OccursIn(b, text) ==
    \E i \in 1..(Len(text) - Len(b) + 1) : lower(SubSeq(text, i, i + Len(b) - 1)) = lower(b)

\* The list index of the first known brand in text, 0 when there is none.
FirstBrand(text) ==
    IF \E i \in 1..Len(KnownBrands) : OccursIn(KnownBrands[i], text)
    THEN CHOOSE i \in 1..Len(KnownBrands) :
            /\ OccursIn(KnownBrands[i], text)
            /\ \A j \in 1..(i - 1) : ~OccursIn(KnownBrands[j], text)
    ELSE 0

HasExplicitBrand(r) == "brand" \in DOMAIN r /\ truthy(r["brand"])

\* The text of a field that is a str, "" when the field is absent or no str.
TextOf(r, key) == IF key \in DOMAIN r /\ r[key].type = "str" THEN r[key].s ELSE ""

\* C3: _extract_brand returns, for every raw record, the explicit 'brand'
\* field when it is present and not empty, else the brand found in the title,
\* else the one found in the description, else None.
C3_Priority ==
    Returned("_extract_brand") =>
        LET r == call.arg.d
            t == FirstBrand(TextOf(r, "title"))
            d == FirstBrand(TextOf(r, "description"))
        IN  IF HasExplicitBrand(r) THEN py_eq(result, r["brand"])
            ELSE IF t > 0 THEN py_eq(result, Str(KnownBrands[t]))
            ELSE IF d > 0 THEN py_eq(result, Str(KnownBrands[d]))
            ELSE py_eq(result, None)

\* The inputs float() converts, and those among them it converts to 0.
Convertible(v) ==
    \/ v.type \in {"int", "float", "bool"}
    \/ v.type = "str" /\ v.s \in {"12.5", " -0.0 ", "0"}

ConvertsToZero(v) ==
    \/ v.type = "int" /\ v.n = 0
    \/ v.type = "float" /\ v.c = 0
    \/ v.type = "bool" /\ ~v.b
    \/ v.type = "str" /\ v.s \in {" -0.0 ", "0"}

NumericOrAbsent(r, key) == key \in DOMAIN r => Convertible(r[key])

\* C4: normalize_listing returns a canonical record for every raw record
\* whose 'price' and 'shipping_cost' are each absent or convertible to a
\* number, whatever the other fields hold.
C4_TotalButNumeric ==
    (/\ Returned("normalize_listing")
     /\ NumericOrAbsent(call.arg.d, "price")
     /\ NumericOrAbsent(call.arg.d, "shipping_cost"))
        => result.type = "dict"

\* C5: a 'price' or 'shipping_cost' that is present and does not convert to
\* a number makes normalize_listing raise; a returned record holds 0 there
\* only when the key is absent or its value converts to 0.
C5_LoudCoercion ==
    Returned("normalize_listing") =>
        LET r == call.arg.d
        IN  /\ (~NumericOrAbsent(r, "price") \/ ~NumericOrAbsent(r, "shipping_cost"))
                   => result.type = "raise"
            /\ result.type = "dict" =>
                  /\ result.d["price"].type = "float"
                  /\ result.d["shipping_cost"].type = "float"
                  /\ result.d["price"].c = 0 =>
                        ("price" \notin DOMAIN r \/ ConvertsToZero(r["price"]))
                  /\ result.d["shipping_cost"].c = 0 =>
                        ("shipping_cost" \notin DOMAIN r \/ ConvertsToZero(r["shipping_cost"]))

\* A record whose price is the text "abc" has made normalize_listing raise.
C5_Witness ==
    /\ Returned("normalize_listing")
    /\ "price" \in DOMAIN call.arg.d
    /\ call.arg.d["price"].type = "str"
    /\ call.arg.d["price"].s = "abc"
    /\ result.type = "raise"
    /\ result.exc = "ValueError"

CanonicalKeys ==
    {"platform", "platform_id", "title", "description", "price", "images", "condition",
     "seller_info", "category", "brand", "shipping_cost", "shipping_method", "url"}

\* C6: every record normalize_listing returns has exactly the 13 documented
\* top-level keys, however sparse the raw record.
C6_ThirteenKeys ==
    (Returned("normalize_listing") /\ result.type = "dict")
        => (DOMAIN result.d = CanonicalKeys /\ Cardinality(DOMAIN result.d) = 13)

\* The empty raw record has been normalized to a record of 13 keys.
C6_Witness ==
    /\ Returned("normalize_listing")
    /\ DOMAIN call.arg.d = {}
    /\ result.type = "dict"
    /\ Cardinality(DOMAIN result.d) = 13

\* The GET failed in transport, or the response has an error status.
NetworkFailure ==
    \/ response.kind \in {"ConnectionError", "Timeout"}
    \/ response.kind = "response" /\ response.status >= 400

\* C7: when the GET fails in transport or the response has an error status,
\* search logs the error and returns an empty list; no exception reaches
\* the caller.
C7_NetworkFailureGivesEmpty ==
    (Returned("search") /\ NetworkFailure) =>
        /\ result.type = "list"
        /\ result.items = <<>>
        /\ Len(log) = 1
        /\ log[1].level = "error"

\* A 503 response has been answered with an empty list and an error record.
C7_Witness ==
    /\ Returned("search")
    /\ response.kind = "response"
    /\ response.status = 503
    /\ result.type = "list"
    /\ result.items = <<>>
    /\ Len(log) = 1
    /\ log[1].level = "error"

\* C8: called with include_sold false, search returns no record whose
\* is_sold is true, whatever items the remote endpoint returns.
C8_NoSoldRecords ==
    (Returned("search") /\ ~call.arg.d.args.include_sold /\ result.type = "list") =>
        \A i \in 1..Len(result.items) : ~result.items[i].d["is_sold"].b

\* C9: normalize_condition returns the variant of the first pattern, in the
\* fixed order, that matches the lower-cased input at word boundaries; a
\* later pattern counts only if no earlier one matches, and a pattern word
\* inside a longer word is no match.
C9_FirstPatternWins ==
    Returned("normalize_condition") =>
        /\ result.type = "StandardCondition"
        /\ \A k \in 1..Len(PatternOrder) :
              (/\ PatternMatches(k, call.arg.s)
               /\ \A j \in 1..(k - 1) : ~PatternMatches(j, call.arg.s))
                  => result.name = PatternOrder[k][2]
        /\ (str_in("new", lower(call.arg.s))
            /\ \A k \in 1..3 : ~PatternMatches(k, call.arg.s))
              => result.name # "NEW"

\* "Very Good", which the word "good" matches too, has been classified VERY_GOOD.
C9_Witness ==
    /\ Returned("normalize_condition")
    /\ call.arg.s = "Very Good"
    /\ result.type = "StandardCondition"
    /\ result.name = "VERY_GOOD"

\* C10: the brand scan of a text returns the first entry of the list, in
\* list order, that occurs in the text letter case apart, and None when no
\* entry occurs; the title scan and the description scan give the same result.
C10_FirstListedBrand ==
    (Returned("_find_brand_in_title") \/ Returned("_find_brand_in_description")) =>
        LET i == FirstBrand(call.arg.s)
        IN  IF i = 0 THEN result.type = "NoneType"
            ELSE result.type = "str" /\ result.s = KnownBrands[i]

\* A title where "sony" comes before "Nike" has given Nike, the earlier entry.
C10_Witness ==
    /\ Returned("_find_brand_in_title")
    /\ call.arg.s = "sonyNike"
    /\ result.type = "str"
    /\ result.s = "Nike"

====
